---- MODULE Spec2Model ----
(***************************************************************************)
(* Model of libedgedns/src/hooks.rs: the registry of dynamically loaded    *)
(* hook modules (Hooks), its construction by a scan of the discovery path, *)
(* and the three public operations enabled / apply_clientside /            *)
(* apply_serverside.                                                       *)
(*                                                                         *)
(* Byte strings (Vec<u8>, OsStr) are sequences of integers 0..255.         *)
(* Result values and panics are records with a field kind in               *)
(* {"Ok", "Err", "Panic"}.                                                 *)
(***************************************************************************)
EXTENDS Integers, Sequences, FiniteSets, TLC

VARIABLES
    pc,                 \* position of the process: construction or serving
    libraries_path,     \* Hooks.libraries_path : Option<String>
    master_service_id,  \* Hooks.master_service_id : Vec<u8>
    services,           \* Hooks.services : Trie<Vec<u8>, Service>
    arc,                \* arc[h] = strong count of the Arc<Library> of handle h
    scanned,            \* glob entries consumed by load_libraries so far
    skipped,            \* glob entries of this scan that were skipped
    last_load,          \* what load_libraries did with the last glob entry
    call                \* the last public operation called, and its outcome

vars == <<pc, libraries_path, master_service_id, services, arc, scanned,
          skipped, last_load, call>>

-----------------------------------------------------------------------------
(* Bounds *)

\* Largest number of entries the glob iterator yields in one construction.
MaxFiles == 3

-----------------------------------------------------------------------------
(* Vocabulary *)

\* Option<T>: None, or Some(x) holding x.
None == <<>>
Some(x) == <<x>>
Unwrap(o) == o[1]

\* "master" as bytes
MASTER_SERVICE_LIBRARY_NAME == <<109, 97, 115, 116, 101, 114>>

Stages == {"Recv", "Deliver"}

Actions == {"Pass", "Lookup", "Drop"}

\* impl From<Action> for c_int: the discriminants of enum Action
\* (Pass = 1, the others count on from it).
CIntFromAction(v) ==
    CASE v = "Pass" -> 1
      [] v = "Lookup" -> 1 + 1
      [] v = "Drop" -> 1 + 2

\* A decoding that lets an unknown status through.
ActionFromCIntFailOpen(id) ==
    IF id = CIntFromAction("Lookup") THEN "Lookup"
    ELSE IF id = CIntFromAction("Drop") THEN "Drop"
    ELSE "Pass"

\* impl From<c_int> for Action
ActionFromCInt(id) ==
    IF id = CIntFromAction("Pass") THEN "Pass"
    ELSE IF id = CIntFromAction("Lookup") THEN "Lookup"
    ELSE "Drop"

\* Values of c_int a foreign hook is made to return.
Statuses == {-1, 0, 1, 2, 3, 255}

-----------------------------------------------------------------------------
(* Packet Adapter (dnssector), as used by the apply operations *)

DNS_HEADER_SIZE == 12

\* DNSSector::new(packet): a buffer shorter than a DNS header is refused.
DNSSectorNew(packet) ==
    IF Len(packet) < DNS_HEADER_SIZE
    THEN [kind |-> "Err"]
    ELSE [kind |-> "Ok", ds |-> [packet |-> packet]]

\* Offset just past the name starting at off, or 0 when the name runs off the
\* buffer or uses a label form a question may not have.
RECURSIVE SkipName(_, _)
SkipName(packet, off) ==
    IF off > Len(packet) THEN 0
    ELSE IF packet[off] = 0 THEN off + 1
    ELSE IF packet[off] >= 64 THEN 0
    ELSE SkipName(packet, off + 1 + packet[off])

\* DNSSector::parse(): the header announces one question, and the question
\* (name, type, class) lies within the buffer.
Parse(ds) ==
    LET packet == ds.packet
        qdcount == packet[5] * 256 + packet[6]
        after_name == SkipName(packet, DNS_HEADER_SIZE + 1)
    IN  IF qdcount = 1 /\ after_name # 0 /\ after_name + 3 <= Len(packet)
        THEN [kind |-> "Ok",
              parsed_packet |-> [dns_sector |-> ds,
                                 offset_question |-> DNS_HEADER_SIZE]]
        ELSE [kind |-> "Err"]

\* ParsedPacket::into_packet(): hands back the buffer the packet owns.
IntoPacket(parsed_packet) == parsed_packet.dns_sector.packet

\* Buffers fed to the apply operations.
ShortPacket == <<18, 52>>
TruncatedPacket == <<18, 52, 1, 0, 0, 1, 0, 0, 0, 0, 0, 0>>
QueryPacket == <<18, 52, 1, 0, 0, 1, 0, 0, 0, 0, 0, 0, 0, 0, 1, 0, 1>>
ResponsePacket ==
    <<171, 205, 129, 128, 0, 1, 0, 0, 0, 0, 0, 0, 1, 97, 0, 0, 1, 0, 1>>

Packets == {ShortPacket, TruncatedPacket, QueryPacket, ResponsePacket}

-----------------------------------------------------------------------------
(* Foreign code *)

\* What a hook does to the packet it is handed, through the accessor table
\* or the raw pointer.
Mutations == {"none", "flip_top_bit"}

FlipTopBit(b) == IF b >= 128 THEN b - 128 ELSE b + 128

Mutate(parsed_packet, mutation) ==
    IF mutation = "flip_top_bit"
    THEN [parsed_packet EXCEPT !.dns_sector.packet[1] = FlipTopBit(@)]
    ELSE parsed_packet

SessionStates == {"SessionState"}

-----------------------------------------------------------------------------
(* Discovery: what the glob iterator over "<libraries_path>/*.dylib" yields *)

\* File stems met by the scan: the reserved name, another name, and a name
\* that is not valid UTF-8.
OtherStem == <<103, 101, 111>>
UndecodableStem == <<103, 255>>

\* OsStr::to_str succeeds on valid UTF-8 only; over the bytes used here,
\* those are the ASCII ones.
ToStr(bytes) ==
    IF \A i \in 1..Len(bytes) : bytes[i] < 128 THEN Some(bytes) ELSE None

\* A dynamic library file: whether the loader accepts it, and which of the two
\* well-known symbols it exports.
LibraryFiles == [loadable : BOOLEAN, hook_recv : BOOLEAN, hook_deliver : BOOLEAN]

NoLibrary == [loadable |-> FALSE, hook_recv |-> FALSE, hook_deliver |-> FALSE]

\* A matched path: its file_stem() (None when the path has no file name),
\* whether the whole path is valid UTF-8, and the file behind it.  Only a
\* file named after the master and reachable by a UTF-8 path is ever opened,
\* and the symbols of a file the loader refuses are never looked up, so the
\* content of the files that do not matter is left out.
MasterPaths ==
    [kind : {"path"}, stem : {Some(MASTER_SERVICE_LIBRARY_NAME)},
     path_utf8 : {TRUE},
     file : {NoLibrary} \cup {f \in LibraryFiles : f.loadable}]
    \cup
    [kind : {"path"}, stem : {Some(MASTER_SERVICE_LIBRARY_NAME)},
     path_utf8 : {FALSE}, file : {NoLibrary}]

OtherPaths ==
    [kind : {"path"}, stem : {None, Some(OtherStem), Some(UndecodableStem)},
     path_utf8 : {TRUE}, file : {NoLibrary}]

\* An entry the iterator could not read (GlobError).
GlobErrors ==
    [kind : {"err"}, stem : {None}, path_utf8 : {TRUE}, file : {NoLibrary}]

GlobEntries == MasterPaths \cup OtherPaths \cup GlobErrors

\* Path::to_str: the path as text, here the path itself, when it is UTF-8.
PathToStr(library_path) ==
    IF library_path.path_utf8 THEN Some(library_path) ELSE None

\* Values of the libraries_path argument: absent, a directory (or a pattern
\* of directories), and a text glob() refuses as a pattern.
DirPath == "plugins"
BadPatternPath == "plugins/***"

LibrariesPaths == {None, Some(DirPath), Some(BadPatternPath)}

\* glob(&path_expr): Err(PatternError) for an unsupported pattern.
Glob(path) ==
    IF path = BadPatternPath THEN [kind |-> "Err"] ELSE [kind |-> "Ok"]

-----------------------------------------------------------------------------
(* Service and ServiceHooks *)

\* Library handles are numbered in the order they are opened; a library is
\* loaded as long as its Arc has a strong reference.
Loaded(counts, h) == h \in 1..Len(counts) /\ counts[h] > 0

\* library.get(name) kept raw: the entry point remembers the library it was
\* resolved from, and holds no reference on it.
Resolve(h, file, name) ==
    IF file[name] THEN Some([library |-> h, symbol |-> name]) ELSE None

\* A Service::new whose ServiceHooks does not keep the library: the last
\* reference goes when the function returns.
ServiceNewUnretained(library_path, counts) ==
    IF library_path = None
    THEN [kind |-> "Ok", service |-> [service_hooks |-> None], arc |-> counts]
    ELSE IF ~Unwrap(library_path).file.loadable
    THEN [kind |-> "Err", msg |-> "Unable to load the dynamic library",
          arc |-> counts]
    ELSE
        LET file == Unwrap(library_path).file
            h == Len(counts) + 1
            service_hooks ==
                [library |-> h,
                 hook_recv |-> Resolve(h, file, "hook_recv"),
                 hook_deliver |-> Resolve(h, file, "hook_deliver")]
        IN  [kind |-> "Ok",
             service |-> [service_hooks |-> Some(service_hooks)],
             arc |-> Append(counts, 1 - 1)]

\* Service::new(library_path).  counts is the table of Arc strong counts;
\* the result carries the table as the call leaves it.
ServiceNew(library_path, counts) ==
    IF library_path = None
    THEN [kind |-> "Ok", service |-> [service_hooks |-> None], arc |-> counts]
    ELSE IF ~Unwrap(library_path).file.loadable
    THEN [kind |-> "Err", msg |-> "Unable to load the dynamic library",
          arc |-> counts]
    ELSE
        LET file == Unwrap(library_path).file
            h == Len(counts) + 1
            \* Arc::new, library.clone(), and library_inner dropped on return
            strong == 1 + 1 - 1
            service_hooks ==
                [library |-> h,
                 hook_recv |-> Resolve(h, file, "hook_recv"),
                 hook_deliver |-> Resolve(h, file, "hook_deliver")]
        IN  [kind |-> "Ok",
             service |-> [service_hooks |-> Some(service_hooks)],
             arc |-> Append(counts, strong)]

\* Dropping a Service drops its ServiceHooks, hence one reference on the
\* library; the library is unloaded when the count reaches zero.
DropService(service, counts) ==
    IF service.service_hooks = None THEN counts
    ELSE [counts EXCEPT ![Unwrap(service.service_hooks).library] = @ - 1]

\* Trie::insert: the value replaces the one stored under the key, if any, and
\* the replaced value, which the caller ignores, is dropped.
TrieInsert(trie, key, value, counts) ==
    [services |-> [k \in DOMAIN trie \cup {key} |->
                      IF k = key THEN value ELSE trie[k]],
     arc |-> IF key \in DOMAIN trie
             THEN DropService(trie[key], counts)
             ELSE counts]

\* Trie::get
TrieGet(trie, key) == IF key \in DOMAIN trie THEN Some(trie[key]) ELSE None

-----------------------------------------------------------------------------
(* Hooks::load_library *)

\* A load_library that registers every module it can, under its own stem.
LoadLibraryRegisterAll(trie, master_id, counts, library_path) ==
    LET unchanged(kind, msg) ==
            [kind |-> kind, msg |-> msg, services |-> trie, arc |-> counts]
        stem == library_path.stem
        is_master == stem = Some(MASTER_SERVICE_LIBRARY_NAME)
        service_id == IF is_master THEN Some(master_id)
                      ELSE ToStr(Unwrap(stem))
    IN  IF stem = None
        THEN unchanged("Err", "Missing stem from file name")
        ELSE IF service_id = None \/ PathToStr(library_path) = None
        THEN unchanged("Err", "Unsupported path name")
        ELSE
            LET made == ServiceNew(IF is_master THEN PathToStr(library_path)
                                   ELSE None, counts)
            IN  IF made.kind = "Err"
                THEN unchanged("Err", "Unable to register the service")
                ELSE
                    LET put == TrieInsert(trie, Unwrap(service_id),
                                          made.service, made.arc)
                    IN  [kind |-> "Ok", msg |-> "",
                         services |-> put.services, arc |-> put.arc]

LoadLibrary(trie, master_id, counts, library_path) ==
    LET unchanged(kind, msg) ==
            [kind |-> kind, msg |-> msg, services |-> trie, arc |-> counts]
        stem == library_path.stem
        is_master == stem = Some(MASTER_SERVICE_LIBRARY_NAME)
        service_id == IF is_master THEN Some(master_id)
                      ELSE ToStr(Unwrap(stem))
    IN  IF stem = None
        THEN unchanged("Err", "Missing stem from file name")
        ELSE IF service_id = None
        THEN unchanged("Err", "Unsupported path name")
        ELSE IF ~is_master
        THEN unchanged("Ok", "")
        ELSE IF PathToStr(library_path) = None
        THEN unchanged("Err", "Unsupported path name")
        ELSE
            LET made == ServiceNew(PathToStr(library_path), counts)
            IN  IF made.kind = "Err"
                THEN unchanged("Err", "Unable to register the service")
                ELSE
                    LET put == TrieInsert(trie, Unwrap(service_id),
                                          made.service, made.arc)
                    IN  [kind |-> "Ok", msg |-> "",
                         services |-> put.services, arc |-> put.arc]

-----------------------------------------------------------------------------
(* The public operations of Hooks *)

Panic(msg) == [kind |-> "Panic", msg |-> msg]

\* Hooks::enabled(stage)
Enabled(trie, master_id, stage) ==
    LET service == TrieGet(trie, master_id)
    IN  IF service = None
        THEN Panic("Nonexistent service")
        ELSE [kind |-> "Ok",
              value |-> Unwrap(service).service_hooks # None]

\* One run of a foreign entry point: the status it returns, what it does to
\* the packet, and, for an entry point whose library is no longer loaded
\* (a dangling function pointer), whether the call faults.
HookRuns(trie, counts) ==
    [status : Statuses, mutation : Mutations,
     fault : IF \A k \in DOMAIN trie :
                    \/ trie[k].service_hooks = None
                    \/ Loaded(counts, Unwrap(trie[k].service_hooks).library)
             THEN {FALSE} ELSE BOOLEAN]

\* unsafe { hook(&fn_table, &mut parsed_packet) }
CallHook(hook, counts, parsed_packet, run) ==
    [invocation |-> [symbol |-> hook.symbol, library |-> hook.library,
                     loaded |-> Loaded(counts, hook.library)],
     fault |-> ~Loaded(counts, hook.library) /\ run.fault,
     status |-> run.status,
     parsed_packet |-> Mutate(parsed_packet, run.mutation)]

\* Hooks::apply_clientside(session_state, packet, stage).  The result is the
\* value returned (or the panic raised) and the entry points invoked.
ApplyClientside(trie, master_id, counts, session_state, packet, stage, run) ==
    LET on == Enabled(trie, master_id, stage)
        ds == DNSSectorNew(packet)
        parsed == Parse(ds.ds)
        service == TrieGet(trie, master_id)
        service_hooks == Unwrap(service).service_hooks
        hook == IF stage = "Recv"
                THEN Unwrap(service_hooks).hook_recv
                ELSE Unwrap(service_hooks).hook_deliver
        ran == CallHook(Unwrap(hook), counts, parsed.parsed_packet, run)
        quiet(ret) == [ret |-> ret, invoked |-> <<>>]
    IN  IF on.kind = "Panic" THEN quiet(on)
        ELSE IF ~on.value
        THEN quiet([kind |-> "Ok", action |-> "Pass", packet |-> packet])
        ELSE IF ds.kind = "Err"
        THEN quiet([kind |-> "Err", msg |-> "Cannot parse packet"])
        ELSE IF parsed.kind = "Err"
        THEN quiet([kind |-> "Err", msg |-> "Invalid packet"])
        ELSE IF service = None
        THEN quiet(Panic("Nonexistent master service"))
        ELSE IF service_hooks = None \/ hook = None
        THEN quiet(Panic("called Option::unwrap() on a None value"))
        ELSE IF ran.fault
        THEN [ret |-> [kind |-> "Fault"], invoked |-> <<ran.invocation>>]
        ELSE [ret |-> [kind |-> "Ok",
                       action |-> ActionFromCInt(ran.status),
                       packet |-> IntoPacket(ran.parsed_packet)],
              invoked |-> <<ran.invocation>>]

\* An apply_serverside that lets a buffer it cannot parse through.
ApplyServersideFailOpen(trie, master_id, counts, packet, stage, run) ==
    LET out == ApplyClientside(trie, master_id, counts, "SessionState",
                               packet, stage, run)
    IN  IF out.ret.kind = "Err"
        THEN [ret |-> [kind |-> "Ok", action |-> "Pass", packet |-> packet],
              invoked |-> out.invoked]
        ELSE out

\* An apply_serverside that returns the bytes it was given, not the bytes of
\* the packet the hook worked on.
ApplyServersideStaleBytes(trie, master_id, counts, packet, stage, run) ==
    LET out == ApplyClientside(trie, master_id, counts, "SessionState",
                               packet, stage, run)
    IN  IF out.ret.kind = "Ok"
        THEN [out EXCEPT !.ret.packet = packet]
        ELSE out

\* An apply_serverside that runs the receive hook at every stage.
ApplyServersideRecvOnly(trie, master_id, counts, packet, stage, run) ==
    ApplyClientside(trie, master_id, counts, "SessionState", packet, "Recv",
                    run)

\* Hooks::apply_serverside(packet, stage)
ApplyServerside(trie, master_id, counts, packet, stage, run) ==
    LET on == Enabled(trie, master_id, stage)
        ds == DNSSectorNew(packet)
        parsed == Parse(ds.ds)
        service == TrieGet(trie, master_id)
        service_hooks == Unwrap(service).service_hooks
        hook == IF stage = "Recv"
                THEN Unwrap(service_hooks).hook_recv
                ELSE Unwrap(service_hooks).hook_deliver
        ran == CallHook(Unwrap(hook), counts, parsed.parsed_packet, run)
        quiet(ret) == [ret |-> ret, invoked |-> <<>>]
    IN  IF on.kind = "Panic" THEN quiet(on)
        ELSE IF ~on.value
        THEN quiet([kind |-> "Ok", action |-> "Pass", packet |-> packet])
        ELSE IF ds.kind = "Err"
        THEN quiet([kind |-> "Err", msg |-> "Cannot parse packet"])
        ELSE IF parsed.kind = "Err"
        THEN quiet([kind |-> "Err", msg |-> "Invalid packet"])
        ELSE IF service = None
        THEN quiet(Panic("Nonexistent master service"))
        ELSE IF service_hooks = None \/ hook = None
        THEN quiet(Panic("called Option::unwrap() on a None value"))
        ELSE IF ran.fault
        THEN [ret |-> [kind |-> "Fault"], invoked |-> <<ran.invocation>>]
        ELSE [ret |-> [kind |-> "Ok",
                       action |-> ActionFromCInt(ran.status),
                       packet |-> IntoPacket(ran.parsed_packet)],
              invoked |-> <<ran.invocation>>]

-----------------------------------------------------------------------------
(* State machine *)

\* Hooks::new(libraries_path), up to the call of load_libraries: an empty
\* trie and an empty master identifier.
Init ==
    /\ pc = "new"
    /\ libraries_path \in LibrariesPaths
    /\ master_service_id = <<>>
    /\ services = <<>>
    /\ arc = <<>>
    /\ scanned = 0
    /\ skipped = 0
    /\ last_load = None
    /\ call = None

\* load_libraries, up to the loop: no path, nothing to load; a pattern glob
\* refuses, the expect() panics and no registry is returned.
LoadLibrariesBegin ==
    /\ pc = "new"
    /\ pc' = IF libraries_path = None THEN "ready"
             ELSE IF Glob(Unwrap(libraries_path)).kind = "Err" THEN "aborted"
             ELSE "scanning"
    /\ UNCHANGED <<libraries_path, master_service_id, services, arc, scanned,
                   skipped, last_load, call>>

\* A loop that gives up at the first entry it cannot load.
LoadLibrariesNextAborting ==
    /\ pc = "scanning"
    /\ scanned < MaxFiles
    /\ \E entry \in GlobEntries :
          LET loaded == LoadLibrary(services, master_service_id, arc, entry)
              failed == entry.kind = "err" \/ loaded.kind = "Err"
          IN  /\ scanned' = scanned + 1
              /\ last_load' = Some([entry |-> entry,
                                    kind |-> IF failed THEN "Err" ELSE "Ok",
                                    msg |-> loaded.msg])
              /\ skipped' = IF failed THEN skipped + 1 ELSE skipped
              /\ pc' = IF failed THEN "ready" ELSE pc
              /\ services' = IF failed THEN services ELSE loaded.services
              /\ arc' = IF failed THEN arc ELSE loaded.arc
    /\ UNCHANGED <<libraries_path, master_service_id, call>>

\* One turn of the loop of load_libraries, on the next entry of the iterator.
LoadLibrariesNext ==
    /\ pc = "scanning"
    /\ scanned < MaxFiles
    /\ \E entry \in GlobEntries :
          LET loaded == LoadLibrary(services, master_service_id, arc, entry)
          IN  /\ scanned' = scanned + 1
              /\ IF entry.kind = "err"
                 THEN /\ last_load' = Some([entry |-> entry, kind |-> "Err",
                                            msg |-> "GlobError"])
                      /\ skipped' = skipped + 1
                      /\ UNCHANGED <<services, arc>>
                 ELSE /\ last_load' = Some([entry |-> entry,
                                            kind |-> loaded.kind,
                                            msg |-> loaded.msg])
                      /\ skipped' = IF loaded.kind = "Err"
                                    THEN skipped + 1 ELSE skipped
                      /\ services' = loaded.services
                      /\ arc' = loaded.arc
    /\ UNCHANGED <<pc, libraries_path, master_service_id, call>>

\* The iterator is exhausted: load_libraries returns and new() returns hooks.
LoadLibrariesEnd ==
    /\ pc = "scanning"
    /\ pc' = "ready"
    /\ UNCHANGED <<libraries_path, master_service_id, services, arc, scanned,
                   skipped, last_load, call>>

\* A call of enabled(stage) on the constructed registry.
CallEnabled ==
    /\ pc = "ready"
    /\ \E stage \in Stages :
          call' = Some([op |-> "enabled", stage |-> stage,
                        ret |-> Enabled(services, master_service_id, stage),
                        invoked |-> <<>>])
    /\ UNCHANGED <<pc, libraries_path, master_service_id, services, arc,
                   scanned, skipped, last_load>>

\* A call of apply_clientside(session_state, packet, stage).
CallApplyClientside ==
    /\ pc = "ready"
    /\ \E session_state \in SessionStates, packet \in Packets,
          stage \in Stages, run \in HookRuns(services, arc) :
          LET out == ApplyClientside(services, master_service_id, arc,
                                     session_state, packet, stage, run)
          IN  call' = Some([op |-> "apply_clientside", stage |-> stage,
                            packet |-> packet,
                            run |-> IF out.invoked = <<>> THEN None
                                    ELSE Some(run),
                            ret |-> out.ret, invoked |-> out.invoked])
    /\ UNCHANGED <<pc, libraries_path, master_service_id, services, arc,
                   scanned, skipped, last_load>>

\* A call of apply_serverside(packet, stage).
CallApplyServerside ==
    /\ pc = "ready"
    /\ \E packet \in Packets, stage \in Stages,
          run \in HookRuns(services, arc) :
          LET out == ApplyServerside(services, master_service_id, arc,
                                     packet, stage, run)
          IN  call' = Some([op |-> "apply_serverside", stage |-> stage,
                            packet |-> packet,
                            run |-> IF out.invoked = <<>> THEN None
                                    ELSE Some(run),
                            ret |-> out.ret, invoked |-> out.invoked])
    /\ UNCHANGED <<pc, libraries_path, master_service_id, services, arc,
                   scanned, skipped, last_load>>

Next ==
    \/ LoadLibrariesBegin
    \/ LoadLibrariesNext
    \/ LoadLibrariesEnd
    \/ CallEnabled
    \/ CallApplyClientside
    \/ CallApplyServerside

Spec == Init /\ [][Next]_vars

TypeOK ==
    /\ pc \in {"new", "scanning", "ready", "aborted"}
    /\ libraries_path \in LibrariesPaths
    /\ scanned \in 0..MaxFiles
    /\ skipped \in 0..scanned

-----------------------------------------------------------------------------
(* Vocabulary of the properties *)

Called(ops) == call # None /\ Unwrap(call).op \in ops

Applies == {"apply_clientside", "apply_serverside"}

\* The master entry of the registry holds loaded ServiceHooks.
MasterLoaded ==
    /\ master_service_id \in DOMAIN services
    /\ services[master_service_id].service_hooks # None

MasterHooks == Unwrap(services[master_service_id].service_hooks)

StageHook(stage) ==
    IF stage = "Recv" THEN MasterHooks.hook_recv ELSE MasterHooks.hook_deliver

StageSymbol(stage) == IF stage = "Recv" THEN "hook_recv" ELSE "hook_deliver"

\* No module was loaded: no discovery path, or a scan that matched no file.
NoModuleLoaded ==
    pc = "ready" /\ (libraries_path = None \/ scanned = 0)

PassUnchanged(c) ==
    c.ret = [kind |-> "Ok", action |-> "Pass", packet |-> c.packet]

MalformedPackets == {ShortPacket, TruncatedPacket}

WellFormedPackets == {QueryPacket, ResponsePacket}

-----------------------------------------------------------------------------
(* C1 *)

\* C1: on a registry constructed with no module loaded, enabled returns false
\* for both stages and both apply operations return Ok((Pass, input bytes)).
C1_NoModuleBypass ==
    (NoModuleLoaded /\ call # None) =>
        /\ Called({"enabled"}) =>
              Unwrap(call).ret = [kind |-> "Ok", value |-> FALSE]
        /\ Called(Applies) =>
              /\ PassUnchanged(Unwrap(call))
              /\ Unwrap(call).invoked = <<>>

-----------------------------------------------------------------------------
(* C2 *)

\* C2: when the loaded master module lacks the entry point of the requested
\* stage, apply on a well-formed packet returns Ok((Pass, input bytes)),
\* invokes no foreign code and does not abort.
C2_MissingEntryPointNoop ==
    (/\ Called(Applies)
     /\ MasterLoaded
     /\ Unwrap(call).packet \in WellFormedPackets
     /\ StageHook(Unwrap(call).stage) = None) =>
        /\ PassUnchanged(Unwrap(call))
        /\ Unwrap(call).invoked = <<>>

-----------------------------------------------------------------------------
(* C3 *)

\* C3: when the framework is enabled and the buffer does not parse as a DNS
\* packet, both apply operations return an error, for either stage, and no
\* entry point is invoked.
C3_MalformedIsError ==
    (/\ Called(Applies)
     /\ MasterLoaded
     /\ Unwrap(call).packet \in MalformedPackets) =>
        /\ Unwrap(call).ret.kind = "Err"
        /\ Unwrap(call).invoked = <<>>

C3_Witness ==
    /\ Called({"apply_serverside"})
    /\ MasterLoaded
    /\ StageHook(Unwrap(call).stage) # None
    /\ Unwrap(call).packet = TruncatedPacket
    /\ Unwrap(call).ret.kind = "Err"
    /\ Unwrap(call).invoked = <<>>

-----------------------------------------------------------------------------
(* C4 *)

HookReturned == Called(Applies) /\ Unwrap(call).run # None

DecodedAsSpecified(status, action) ==
    /\ status = 1 => action = "Pass"
    /\ status = 2 => action = "Lookup"
    /\ status \notin {1, 2} => action = "Drop"

RoundTrips(status, action) == CIntFromAction(action) = status

\* C4 as stated: the decoding of a status is total (1 to Pass, 2 to Lookup,
\* every other integer to Drop), and only 1 and 2 round-trip through Action.
C4_OnlyPassAndLookupRoundTrip ==
    HookReturned =>
        LET status == Unwrap(Unwrap(call).run).status
            action == Unwrap(call).ret.action
        IN  /\ DecodedAsSpecified(status, action)
            /\ RoundTrips(status, action) <=> status \in {1, 2}

\* C4 amended: the decoding of a status is total (1 to Pass, 2 to Lookup,
\* every other integer to Drop), and exactly 1, 2 and 3 round-trip through
\* Action, 3 being the discriminant of Drop.
C4_DecodeTotal ==
    HookReturned =>
        LET status == Unwrap(Unwrap(call).run).status
            action == Unwrap(call).ret.action
        IN  /\ DecodedAsSpecified(status, action)
            /\ RoundTrips(status, action) <=> status \in {1, 2, 3}

C4_Witness ==
    /\ HookReturned
    /\ Unwrap(Unwrap(call).run).status = 255
    /\ Unwrap(call).ret.action = "Drop"

-----------------------------------------------------------------------------
(* C5 *)

MutatedBytes(packet, mutation) ==
    IF mutation = "flip_top_bit"
    THEN [packet EXCEPT ![1] = IF @ >= 128 THEN @ - 128 ELSE @ + 128]
    ELSE packet

\* C5: when the framework is enabled, the packet is well-formed and the master
\* module exports the entry point of the requested stage, apply invokes that
\* entry point exactly once and returns Ok((decoded status, the bytes of the
\* packet as the hook left it)).
C5_HookResult ==
    (/\ Called(Applies)
     /\ MasterLoaded
     /\ Unwrap(call).packet \in WellFormedPackets
     /\ StageHook(Unwrap(call).stage) # None) =>
        LET c == Unwrap(call)
        IN  /\ Len(c.invoked) = 1
            /\ c.invoked[1].symbol = StageSymbol(c.stage)
            /\ c.invoked[1].library = MasterHooks.library
            /\ c.run # None
            /\ c.ret.kind = "Ok"
            /\ DecodedAsSpecified(Unwrap(c.run).status, c.ret.action)
            /\ c.ret.packet = MutatedBytes(c.packet, Unwrap(c.run).mutation)

\* The scenario of the specification: a receive hook flips the top bit of the
\* first byte and returns 2.
C5_Witness ==
    /\ Called({"apply_clientside"})
    /\ Unwrap(call).stage = "Recv"
    /\ Unwrap(call).packet = QueryPacket
    /\ Unwrap(call).run = Some([status |-> 2, mutation |-> "flip_top_bit",
                                fault |-> FALSE])
    /\ Unwrap(call).ret = [kind |-> "Ok", action |-> "Lookup",
                           packet |-> [QueryPacket EXCEPT ![1] = 146]]
    /\ Len(Unwrap(call).invoked) = 1

-----------------------------------------------------------------------------
(* C6 *)

\* C6: enabled(stage) returns true if the master service is in the registry
\* with loaded ServiceHooks and false otherwise, whatever the stage.
C6_EnabledIffMasterLoaded ==
    Called({"enabled"}) =>
        Unwrap(call).ret = [kind |-> "Ok", value |-> MasterLoaded]

-----------------------------------------------------------------------------
(* C7 *)

OnlyMasterKey ==
    /\ master_service_id = <<>>
    /\ DOMAIN services \subseteq {master_service_id}

\* C7: the registry never holds a key other than the fixed master identifier,
\* and only the load of a file whose stem is the master name changes the
\* registry.
C7_OnlyMasterRegistered ==
    [][/\ OnlyMasterKey
       /\ OnlyMasterKey'
       /\ services' # services =>
             /\ last_load' # None
             /\ Unwrap(last_load').entry.stem =
                    Some(MASTER_SERVICE_LIBRARY_NAME)]_vars

\* A module with another stem was loaded without error, and is not in the
\* registry.
C7_Witness ==
    /\ last_load # None
    /\ Unwrap(last_load).entry.stem = Some(OtherStem)
    /\ Unwrap(last_load).kind = "Ok"
    /\ ToStr(OtherStem) # None
    /\ Unwrap(ToStr(OtherStem)) \notin DOMAIN services

-----------------------------------------------------------------------------
(* C8 *)

ValidMasterEntry(entry) ==
    /\ entry.kind = "path"
    /\ entry.stem = Some(MASTER_SERVICE_LIBRARY_NAME)
    /\ entry.path_utf8
    /\ entry.file.loadable

PerFileFailure(entry) ==
    \/ entry.kind = "err"
    \/ entry.stem = None
    \/ entry.stem = Some(UndecodableStem)
    \/ /\ entry.stem = Some(MASTER_SERVICE_LIBRARY_NAME)
       /\ ~entry.path_utf8 \/ ~entry.file.loadable

\* The master entry of trie holds the hooks of file, on a loaded library.
RegisteredFrom(trie, master_id, counts, file) ==
    /\ master_id \in DOMAIN trie
    /\ trie[master_id].service_hooks # None
    /\ LET hooks == Unwrap(trie[master_id].service_hooks)
       IN  /\ Loaded(counts, hooks.library)
           /\ hooks.hook_recv # None <=> file.hook_recv
           /\ hooks.hook_deliver # None <=> file.hook_deliver

\* C8: during construction a file that fails is skipped and nothing else
\* happens: the registry is left as it was, the scan goes on, and a valid
\* master module met afterwards is registered.
C8_FailureSkipsOneFile ==
    [][(pc = "scanning" /\ scanned' = scanned + 1) =>
          LET done == Unwrap(last_load')
          IN  /\ pc' = "scanning"
              /\ PerFileFailure(done.entry) =>
                    /\ done.kind = "Err"
                    /\ skipped' = skipped + 1
                    /\ services' = services
                    /\ arc' = arc
              /\ ValidMasterEntry(done.entry) =>
                    /\ done.kind = "Ok"
                    /\ RegisteredFrom(services', master_service_id', arc',
                                      done.entry.file)]_vars

\* Files were skipped, and the valid master module that came after them is
\* registered in the registry that construction returned.
C8_Witness ==
    /\ pc = "ready"
    /\ skipped >= 2
    /\ last_load # None
    /\ ValidMasterEntry(Unwrap(last_load).entry)
    /\ RegisteredFrom(services, master_service_id, arc,
                      Unwrap(last_load).entry.file)

-----------------------------------------------------------------------------
(* C9 *)

\* C9: on every registry, buffer, stage and session state, and for the same
\* behaviour of the foreign code, apply_clientside and apply_serverside
\* produce the same outcome and the same hook invocations.
C9_SidesEquivalent ==
    pc = "ready" =>
        \A session_state \in SessionStates, packet \in Packets,
           stage \in Stages, run \in HookRuns(services, arc) :
            ApplyClientside(services, master_service_id, arc, session_state,
                            packet, stage, run)
            = ApplyServerside(services, master_service_id, arc, packet,
                              stage, run)

\* A master module with a receive hook only: one stage runs the hook, the
\* other panics, on either side.
C9_Witness ==
    /\ Called({"apply_serverside"})
    /\ MasterLoaded
    /\ MasterHooks.hook_recv # None
    /\ MasterHooks.hook_deliver = None
    /\ Unwrap(call).stage = "Recv"
    /\ Len(Unwrap(call).invoked) = 1
    /\ ApplyClientside(services, master_service_id, arc, "SessionState",
                       QueryPacket, "Deliver",
                       [status |-> 1, mutation |-> "none", fault |-> FALSE])
          .ret.kind = "Panic"

-----------------------------------------------------------------------------
(* C10 *)

\* Every ServiceHooks the registry holds has its library loaded, and its
\* entry points were resolved from that library.
HooksLive ==
    \A k \in DOMAIN services :
        services[k].service_hooks # None =>
            LET hooks == Unwrap(services[k].service_hooks)
            IN  /\ Loaded(arc, hooks.library)
                /\ \A hook \in {hooks.hook_recv, hooks.hook_deliver} :
                      hook # None => Unwrap(hook).library = hooks.library

\* The entry points the last call invoked belong to the ServiceHooks of the
\* master entry, and their library was loaded when they ran.
InvokedLive ==
    call # None =>
        \A i \in 1..Len(Unwrap(call).invoked) :
            /\ Unwrap(call).invoked[i].loaded
            /\ MasterLoaded
            /\ Unwrap(call).invoked[i].library = MasterHooks.library
            /\ Unwrap(call).ret.kind # "Fault"

\* C10: no entry point is invoked after its library was released, also when
\* construction registered the master entry several times; and no call of
\* enabled or apply releases a library or changes the registry.
C10_NoCallAfterRelease ==
    [][/\ HooksLive'
       /\ InvokedLive'
       /\ pc = "ready" =>
             /\ services' = services
             /\ arc' = arc
             /\ master_service_id' = master_service_id]_vars

\* The master module was registered twice: the library of the first is
\* released, and a hook of the second ran.
C10_Witness ==
    /\ Called(Applies)
    /\ Len(arc) >= 2
    /\ ~Loaded(arc, 1)
    /\ Len(Unwrap(call).invoked) = 1
    /\ Unwrap(call).invoked[1].library = Len(arc)
    /\ Unwrap(call).invoked[1].loaded

====
